---- MODULE Spec2Model ----
(***************************************************************************)
(* Model of the subtitle burner: the FFmpegService shim                    *)
(* (src/services/ffmpegService.ts, both preserved variants) over an        *)
(* external transcoding engine, and the App's style state                  *)
(* (src/App.tsx).                                                          *)
(*                                                                         *)
(* Strings are TLC strings; SubSeq, Len and \o act on them as              *)
(* String.substring, String.length and + do in the source.                 *)
(* File sizes are byte counts written <<g, r>> = g * 2^30 + r with         *)
(* 0 <= r < 2^30, because the thresholds (2 GiB, 10 GiB) exceed the        *)
(* checker's integer range.                                                *)
(***************************************************************************)
EXTENDS Integers, Sequences, FiniteSets, TLC

(***************************************************************************)
(* Bounds of the model                                                     *)
(***************************************************************************)
MaxHexLen == 7      \* longest colour string fed to toAssColor
MaxJobs == 2        \* service calls made one after another on one engine

(***************************************************************************)
(* Program constants                                                       *)
(***************************************************************************)
LargeGiB == 2       \* isLargeFile:   size > 2 * 1024^3
MassiveGiB == 10    \* isMassiveFile: size > 10 * 1024^3

NoFile == "<null>"  \* subFile === null

(***************************************************************************)
(* JavaScript string primitives used by the service                        *)
(***************************************************************************)
CharAt(s, i) == SubSeq(s, i, i)

\* String.prototype.substring(start, end) for 0 <= start <= end: the
\* characters at 0-based positions start .. end-1, cut at the string's end.
substring(s, start, end) ==
  LET e == IF end > Len(s) THEN Len(s) ELSE end
      b == IF start > e THEN e ELSE start
  IN  SubSeq(s, b + 1, e)

RECURSIVE IndexOfFrom(_, _, _)
IndexOfFrom(s, c, i) ==
  IF i > Len(s) THEN 0
  ELSE IF CharAt(s, i) = c THEN i
  ELSE IndexOfFrom(s, c, i + 1)

RECURSIVE LastIndexOfFrom(_, _, _)
LastIndexOfFrom(s, c, i) ==
  IF i < 1 THEN 0
  ELSE IF CharAt(s, i) = c THEN i
  ELSE LastIndexOfFrom(s, c, i - 1)

\* String.prototype.replace(c, ''): removes the first occurrence of c only.
ReplaceFirst(s, c) ==
  LET i == IndexOfFrom(s, c, 1)
  IN  IF i = 0 THEN s ELSE SubSeq(s, 1, i - 1) \o SubSeq(s, i + 1, Len(s))

\* The cased characters a string of this module can hold (ASCII and
\* Latin-1: A-Z and U+00C0-U+00DE without the multiplication sign), each
\* with the one character String.prototype.toLowerCase makes of it.
LowerCaseOf ==
  LET UpperChars == "ABCDEFGHIJKLMNOPQRSTUVWXYZ"
                      \o "ÀÁÂÃÄÅÆÇÈÉÊËÌÍÎÏÐÑÒÓÔÕÖØÙÚÛÜÝÞ"
      LowerChars == "abcdefghijklmnopqrstuvwxyz"
                      \o "àáâãäåæçèéêëìíîïðñòóôõöøùúûüýþ"
  IN  [c \in {CharAt(UpperChars, i) : i \in 1..Len(UpperChars)} |->
         CharAt(LowerChars, IndexOfFrom(UpperChars, c, 1))]

RECURSIVE toLowerCase(_)
toLowerCase(s) ==
  IF Len(s) = 0 THEN s
  ELSE LET c == CharAt(s, 1)
       IN  (IF c \in DOMAIN LowerCaseOf THEN LowerCaseOf[c] ELSE c)
             \o toLowerCase(SubSeq(s, 2, Len(s)))

\* name.split('.').pop(): the text after the last '.', the whole name when
\* it has none.
SplitPop(name) ==
  SubSeq(name, LastIndexOfFrom(name, ".", Len(name)) + 1, Len(name))

\* mutant of SubExt: the extension keeps its case
SubExtKeepCase(name) ==
  LET e == SplitPop(name)
  IN  IF e = "" THEN "srt" ELSE e

\* subFile.name.split('.').pop()?.toLowerCase() || 'srt'
SubExt(name) ==
  LET e == toLowerCase(SplitPop(name))
  IN  IF e = "" THEN "srt" ELSE e

\* Array.prototype.join(',')
RECURSIVE Join(_, _)
Join(parts, sep) ==
  IF Len(parts) = 0 THEN ""
  ELSE IF Len(parts) = 1 THEN parts[1]
  ELSE parts[1] \o sep \o Join(Tail(parts), sep)

\* Number-to-string of a multiple of 0.5, held as a count of halves
\* (the outline-width slider moves in steps of 0.5).
HalvesToString(h) ==
  IF h % 2 = 0 THEN ToString(h \div 2) ELSE ToString(h \div 2) \o ".5"

\* size > gib * 1024 * 1024 * 1024 for size = <<g, r>>
SizeAbove(size, gib) == size[1] > gib \/ (size[1] = gib /\ size[2] > 0)

(***************************************************************************)
(* Style Translator                                                        *)
(***************************************************************************)
\* mutants of toAssColor: components kept in input order; length taken
\* before the '#' is removed
toAssColorRGB(hex) ==
  LET cleanHex == ReplaceFirst(hex, "#")
  IN  IF Len(cleanHex) # 6 THEN "&H00FFFFFF"
      ELSE "&H00" \o substring(cleanHex, 0, 2) \o substring(cleanHex, 2, 4)
             \o substring(cleanHex, 4, 6)

toAssColorRawLength(hex) ==
  LET cleanHex == ReplaceFirst(hex, "#")
  IN  IF Len(hex) # 6 THEN "&H00FFFFFF"
      ELSE "&H00" \o substring(cleanHex, 4, 6) \o substring(cleanHex, 2, 4)
             \o substring(cleanHex, 0, 2)

toAssColor(hex) ==
  LET cleanHex == ReplaceFirst(hex, "#")
  IN  IF Len(cleanHex) # 6 THEN "&H00FFFFFF"
      ELSE LET r == substring(cleanHex, 0, 2)
               g == substring(cleanHex, 2, 4)
               b == substring(cleanHex, 4, 6)
           IN  "&H00" \o b \o g \o r

generateStyleString(style) ==
  LET primary == toAssColor(style.primaryColor)
      outline == toAssColor(style.outlineColor)
      bold    == IF style.bold THEN "1" ELSE "0"
      italic  == IF style.italic THEN "1" ELSE "0"
  IN  "FontName=Arial,FontSize=" \o ToString(style.fontSize)
        \o ",PrimaryColour=" \o primary
        \o ",OutlineColour=" \o outline
        \o ",BackColour=&H80000000,BorderStyle=1,Outline="
        \o HalvesToString(style.outlineHalves)
        \o ",Shadow=0,MarginV=" \o ToString(style.marginV)
        \o ",Alignment=" \o ToString(style.alignment)
        \o ",Bold=" \o bold \o ",Italic=" \o italic

(***************************************************************************)
(* State                                                                   *)
(***************************************************************************)
VARIABLES
  variant,      \* which preserved FFmpegService class is in use (1 or 2)
  ffmpeg,       \* this.ffmpeg !== null
  loaded,       \* this.loaded
  instances,    \* engine objects constructed so far
  fsDir,        \* engine file system: state of /mnt_input
  fsFiles,      \* engine file system: names of the files in MEMFS
  pc,           \* position of the running service call
  kind,         \* "none", "load", "preview" or "process"
  videoName, videoSize, subFile, fps, style, outputName,   \* call arguments
  usedMount, subName, args,                                \* call locals
  calls,        \* engine calls made by the running call, in order
  outcome,      \* "none", "resolved" or "rejected"
  error,        \* message of the caught / thrown error
  url,          \* object URL returned
  jobs,         \* service calls started so far
  hexIn, colorField, assOut, styleOut,   \* style translation under test
  step, videoFile, subStyle,     \* App state
  lastUi,                        \* App: the last UI event handled
  customPresets, \* App state: the saved styles
  globalsAvail,  \* window.FFmpeg.FFmpeg is defined (the library script ran)
  retries,       \* waitForGlobals' retries of the running call
  other,         \* a second call in flight: its pc, arguments and locals
  engineLoads,   \* invocations of the engine's load
  logListeners, progressListeners,   \* listeners attached with ffmpeg.on
  logCallback, progressCallback,     \* registered callbacks (0 is null)
  evSent,        \* the last message for a callback: <<type, payload>>
  evDelivered,   \* the callback invocations it caused: <<callback, value>>
  appSub, appError, outputUrl, previewUrl,     \* App state
  isProcessing, isPreviewGenerating,
  pJob, rJob,    \* App: the createPreview / processVideo call in flight
  urlSeq,        \* object URLs created so far
  appFps, appProgress,   \* App state: fps, progress
  revoked,       \* object URLs passed to URL.revokeObjectURL
  previewOf      \* inputs of the createPreview call that gave previewUrl

svcVars == <<variant, ffmpeg, loaded, instances, fsDir, fsFiles, pc, kind,
             videoName, videoSize, subFile, fps, style, outputName,
             usedMount, subName, args, calls, outcome, error, url, jobs>>
colVars == <<hexIn, colorField, assOut, styleOut>>
appVars == <<step, videoFile, subStyle, lastUi>>
presetVars == <<customPresets>>
engineVars == <<engineLoads, logListeners, progressListeners>>
eventVars == <<evSent, evDelivered>>
loadRest == <<globalsAvail, retries, engineVars, logCallback,
              progressCallback, other>>
loadVars == <<loadRest, eventVars>>
uiRest == <<appSub, appError, outputUrl, previewUrl, isProcessing,
            isPreviewGenerating, pJob, rJob, appFps, appProgress,
            revoked, previewOf>>
uiVars == <<uiRest, urlSeq>>
appSide == <<colVars, presetVars, appVars, uiVars>>
vars == <<svcVars, colVars, presetVars, appVars, loadVars, uiVars>>

mountDir == "/mnt_input"
safeInputName == "source_video.mp4"
simpleName == "input.mp4"

\* PRESETS (outlineWidth is held as a count of halves: 2 is 4, 1.5 is 3)
ClassicYellow ==
  [fontSize |-> 24, primaryColor |-> "#FFFF00", outlineColor |-> "#000000",
   outlineHalves |-> 4, marginV |-> 30, alignment |-> 2,
   bold |-> TRUE, italic |-> FALSE]

PRESETS ==
  << [name |-> "Classic Yellow", style |-> ClassicYellow],
     [name |-> "Modern White",
      style |-> [fontSize |-> 24, primaryColor |-> "#FFFFFF",
                 outlineColor |-> "#000000", outlineHalves |-> 3,
                 marginV |-> 35, alignment |-> 2,
                 bold |-> FALSE, italic |-> FALSE]],
     [name |-> "Neon Blue",
      style |-> [fontSize |-> 26, primaryColor |-> "#00FFFF",
                 outlineColor |-> "#000000", outlineHalves |-> 4,
                 marginV |-> 30, alignment |-> 2,
                 bold |-> TRUE, italic |-> FALSE]],
     [name |-> "Minimalist",
      style |-> [fontSize |-> 18, primaryColor |-> "#E0E0E0",
                 outlineColor |-> "#111111", outlineHalves |-> 1,
                 marginV |-> 25, alignment |-> 2,
                 bold |-> FALSE, italic |-> TRUE]] >>

(***************************************************************************)
(* Inputs of the service calls                                             *)
(***************************************************************************)
\* the arguments of createPreview / processVideo: the video's name and size
\* (GiB and whether a remainder is left), the subtitle file, the frame rate,
\* the style and the output name
JobInputs ==
  LET Sizes == {<<0, 1>>, <<2, 0>>, <<2, 1>>, <<10, 0>>, <<10, 1>>}
      VideoNames == {"my clip.mkv"}
      SubFiles == {NoFile, "movie.ASS", "movie."}
      FpsValues == {30}
      JobStyles ==
        {ClassicYellow,
         [ClassicYellow EXCEPT !.primaryColor = "FFF", !.alignment = 8]}
      OutputNames == {"JAV_TH_Processed_1.mp4"}
  IN  [videoName : VideoNames, videoSize : Sizes, subFile : SubFiles,
       fps : FpsValues, style : JobStyles, outputName : OutputNames]

(***************************************************************************)
(* Error messages                                                          *)
(***************************************************************************)
LibraryErr == "FFmpeg library failed to load. Please check your internet connection, ad blockers, or refresh the page."
NotLoadedErr == "FFmpeg library not loaded. Please wait a moment or refresh the page."
InitErr ==
  IF variant = 1
  THEN "Failed to initialize video engine. Network or CORS error."
  ELSE "Failed to initialize video engine. Please refresh."
PreviewErr == "Failed to generate preview. The file format might not support partial reading."
MountLargeErr ==
  IF variant = 1
  THEN "Processing failed. System could not mount large file. Please use a browser that supports WORKERFS (Chrome/Edge/Firefox)."
  ELSE "System Error: Could not mount large file system. Browser security settings or device memory may be restricting access."
MountErr ==
  IF variant = 1
  THEN "System Error: Could not mount file system. Please refresh and try again."
  ELSE "Could not initialize file system for processing."
ExitErr(result) == "FFmpeg exited with code " \o ToString(result) \o ". Check logs."
ReadErr ==
  IF variant = 1
  THEN "Output generation failed. The result file size exceeded browser memory limits (approx 2GB). Try reducing duration or using a computer with more RAM."
  ELSE "Output file generation failed. The result might have exceeded browser memory limits (2GB+)."
\* message of an error thrown by the engine (or by fetchFile) itself
EngineErr(op) == "engine: " \o op \o " failed"

(***************************************************************************)
(* Argument assembly                                                       *)
(***************************************************************************)
\* second variant: the style is a literal of the source
FixedStyle == "FontName=Arial,Fontsize=24,PrimaryColour=&H0000FFFF,BackColour=&H80000000,BorderStyle=3,Outline=2,Shadow=0,MarginV=30,Bold=1"

\* mutant of isLargeFile: >= in place of >
isLargeFileInclusive == videoSize[1] >= LargeGiB

isLargeFile == SizeAbove(videoSize, LargeGiB)
\* mutant of isMassiveFile: >= in place of >
isMassiveFileInclusive == videoSize[1] >= MassiveGiB

isMassiveFile == SizeAbove(videoSize, MassiveGiB)

\* the name the subtitle is staged under by processVideo / createPreview
StagedSubName(base) ==
  IF variant = 1 THEN base \o "." \o SubExt(subFile) ELSE base \o ".srt"

\* mutant of inputPath: the first variant keeps the original name too
inputPathOriginal == mountDir \o "/" \o videoName

inputPath ==
  IF variant = 1 THEN mountDir \o "/" \o safeInputName
  ELSE mountDir \o "/" \o videoName

\* name of the File object handed to mount
mountedName == IF variant = 1 THEN safeInputName ELSE videoName

SubtitleStage ==
  "subtitles=" \o subName \o ":force_style='"
    \o (IF variant = 1 THEN generateStyleString(style) ELSE FixedStyle)
    \o "'"

\* mutant of ProcessFilters: the subtitle stage is pushed first
ProcessFiltersSubFirst ==
  (IF subFile # NoFile THEN <<SubtitleStage>> ELSE <<>>)
    \o (IF variant = 1 /\ isLargeFile THEN <<"scale=-2:720">> ELSE <<>>)

ProcessFilters ==
  (IF variant = 1 /\ isLargeFile THEN <<"scale=-2:720">> ELSE <<>>)
    \o (IF subFile # NoFile THEN <<SubtitleStage>> ELSE <<>>)

CodecArgs ==
  IF variant = 1
  THEN <<"-c:v", "libx264">>
         \o (IF isLargeFile
             THEN <<"-preset", "ultrafast", "-crf", "28",
                    "-tune", "fastdecode">>
                    \o (IF isMassiveFile THEN <<"-threads", "2">> ELSE <<>>)
             ELSE <<"-preset", "veryfast", "-crf", "23">>)
         \o <<"-max_muxing_queue_size", "9999", "-c:a", "copy">>
  ELSE <<"-c:v", "libx264", "-preset", "ultrafast",
         "-max_muxing_queue_size", "9999", "-c:a", "copy">>

\* mutant of ProcessArgs: the frame rate is pushed before the filter graph
ProcessArgsRateFirst ==
  <<"-i", inputPath>>
    \o <<"-r", ToString(fps)>>
    \o (IF Len(ProcessFilters) > 0
        THEN <<"-vf", Join(ProcessFilters, ",")>> ELSE <<>>)
    \o CodecArgs
    \o <<outputName>>

ProcessArgs ==
  <<"-i", inputPath>>
    \o (IF Len(ProcessFilters) > 0
        THEN <<"-vf", Join(ProcessFilters, ",")>> ELSE <<>>)
    \o <<"-r", ToString(fps)>>
    \o CodecArgs
    \o <<outputName>>

PreviewFilters == IF subFile # NoFile THEN <<SubtitleStage>> ELSE <<>>

PreviewArgs ==
  <<"-i", "preview_input.mp4", "-t", "5">>
    \o (IF Len(PreviewFilters) > 0
        THEN <<"-vf", Join(PreviewFilters, ",")>> ELSE <<>>)
    \o <<"-r", ToString(fps)>>
    \o <<"-c:a", "copy", "-preset", "ultrafast", "preview_output.mp4">>

(***************************************************************************)
(* The engine (external): each call either takes effect or throws.  A call *)
(* throws when the file system does not allow it, and may throw for        *)
(* reasons of its own (fail).                                              *)
(***************************************************************************)
\* One entry of the call log: ok = the call returned (did not throw), ret =
\* the status exec returned, made = the call left its file, directory or
\* mount behind in the engine.
CallMade(op, arg, ok, ret, made) ==
  calls' = Append(calls, [op |-> op, arg |-> arg, ok |-> ok, ret |-> ret,
                          made |-> made])
Call(op, arg, ok, ret) == CallMade(op, arg, ok, ret, ok)

UnmountOk(fail)   == fsDir = "mounted" /\ ~fail
DeleteDirOk(fail) == fsDir = "dir" /\ ~fail
CreateDirOk(fail) == fsDir = "absent" /\ ~fail
MountOk(fail)     == fsDir = "dir" /\ ~fail
FileOk(name, fail) == name \in fsFiles /\ ~fail

\* what the attached listeners do with an event: each one calls the
\* current callback, if there is one
Deliveries(listeners, callback, value) ==
  IF callback = 0 THEN <<>>
  ELSE [i \in 1..listeners |-> <<callback, value>>]

\* outcomes of exec: <<threw, status, wrote the output file>>
ExecOutcomes == {<<TRUE, 0, FALSE>>, <<FALSE, 0, TRUE>>, <<FALSE, 0, FALSE>>,
                 <<FALSE, 1, TRUE>>, <<FALSE, 1, FALSE>>}

(***************************************************************************)
(* Control of a running call                                               *)
(***************************************************************************)
Goto(l) == pc' = l /\ UNCHANGED <<outcome, error, url>>
\* an error is caught and kept while the handler cleans up
Catch(l, msg) == pc' = l /\ error' = msg /\ UNCHANGED <<outcome, url>>
Reject(msg) ==
  pc' = "done" /\ outcome' = "rejected" /\ error' = msg /\ UNCHANGED url
\* URL.createObjectURL gives a new URL at every call
Resolve ==
  /\ pc' = "done" /\ outcome' = "resolved"
  /\ urlSeq' = urlSeq + 1
  /\ url' = "blob:" \o ToString(urlSeq + 1)
  /\ UNCHANGED error

svcConfig == <<variant, kind, videoName, videoSize, subFile, fps, style,
               outputName, jobs>>

(***************************************************************************)
(* Service calls: start and load                                           *)
(***************************************************************************)
MaxRetries == 50      \* waitForGlobals: while (retries < 50)

alreadyLoadedNever == FALSE
alreadyLoaded == IF variant = 1 THEN loaded /\ ffmpeg ELSE loaded

needInstanceAlways == TRUE
needInstance == ~ffmpeg

pollAgainInclusive(r) == r <= MaxRetries
pollAgain(r) == r < MaxRetries

\* new FFmpegClass() and the two ffmpeg.on(...) calls, when there is no
\* instance yet
Construct ==
  IF needInstance
  THEN /\ ffmpeg' = TRUE
       /\ instances' = instances + 1
       /\ logListeners' = logListeners + 1
       /\ progressListeners' = progressListeners + 1
  ELSE UNCHANGED <<ffmpeg, instances, logListeners, progressListeners>>

NoConstruct == UNCHANGED <<ffmpeg, instances, logListeners, progressListeners>>

\* first step of a call of method k after its `await this.load()`
AfterLoad(k) ==
  IF k = "preview" THEN "pv_fetch_input"
  ELSE IF variant = 1 THEN "pre_unmount" ELSE "create_dir"

\* a new call has run up to label l (or has settled: l is "done")
Enter(l, out, err) ==
  pc' = l /\ outcome' = out /\ error' = err /\ url' = ""

\* load() returned without an await
EnterReturned(k) ==
  IF k = "load" THEN Enter("done", "resolved", "")
  ELSE Enter(AfterLoad(k), "none", "")

\* load() of a new call of method k, up to its first await
Begin(k) ==
  IF variant = 1
  THEN /\ IF alreadyLoaded THEN EnterReturned(k)
          ELSE IF globalsAvail THEN Enter("create", "none", "")
          ELSE Enter("poll", "none", "")
       /\ NoConstruct
  ELSE IF needInstance /\ ~globalsAvail
  THEN Enter("done", "rejected", NotLoadedErr) /\ NoConstruct
  ELSE /\ Construct
       /\ IF alreadyLoaded THEN EnterReturned(k)
          ELSE Enter("blob_core", "none", "")

\* a call of method k with the arguments inp, up to its first await
StartCall(k, defaultSub, inp) ==
  /\ pc = "idle"
  /\ kind' = k /\ jobs' = jobs + 1
  /\ videoName' = inp.videoName /\ videoSize' = inp.videoSize
  /\ subFile' = inp.subFile /\ fps' = inp.fps
  /\ style' = inp.style /\ outputName' = inp.outputName
  /\ usedMount' = FALSE /\ subName' = defaultSub
  /\ args' = <<>> /\ calls' = <<>> /\ retries' = 0
  /\ Begin(k)
  /\ UNCHANGED <<variant, loaded, fsDir, fsFiles, globalsAvail, engineLoads>>
  /\ UNCHANGED <<logCallback, progressCallback, other, eventVars, appSide>>

StartPreview(inp) == StartCall("preview", "preview_sub.srt", inp)
StartProcess(inp) == StartCall("process", "subtitles.srt", inp)
StartLoad ==
  StartCall("load", "",
            [videoName |-> "", videoSize |-> <<0, 0>>, subFile |-> NoFile,
             fps |-> 30, style |-> ClassicYellow, outputName |-> ""])

\* load() returned: a load() call resolves, createPreview / processVideo
\* go on after their `await this.load()`
LoadReturns ==
  IF kind = "load"
  THEN pc' = "done" /\ outcome' = "resolved" /\ UNCHANGED <<error, url>>
  ELSE Goto(AfterLoad(kind))

\* what the steps of load() leave alone
loadFrame == <<svcConfig, fsDir, fsFiles, usedMount, subName, args, calls,
               globalsAvail, logCallback, progressCallback, other, eventVars,
               appSide>>

\* the 100 ms timer of waitForGlobals fired
Poll ==
  /\ pc = "poll"
  /\ IF globalsAvail THEN Goto("create") /\ retries' = 0
     ELSE IF pollAgain(retries + 1)
     THEN retries' = retries + 1 /\ UNCHANGED <<pc, outcome, error, url>>
     ELSE Reject(LibraryErr) /\ retries' = 0
  /\ UNCHANGED <<ffmpeg, loaded, instances, engineVars, loadFrame>>

\* first variant, after waitForGlobals: the instance, then toBlobURL(core)
Create ==
  /\ pc = "create"
  /\ Construct
  /\ Goto("blob_core")
  /\ UNCHANGED <<loaded, engineLoads, retries, loadFrame>>

\* toBlobURL of ffmpeg-core.js settled
BlobCore ==
  /\ pc = "blob_core"
  /\ \E ok \in BOOLEAN :
       IF ok THEN Goto("blob_wasm") ELSE Reject(InitErr)
  /\ UNCHANGED <<ffmpeg, loaded, instances, engineVars, retries, loadFrame>>

\* toBlobURL of ffmpeg-core.wasm settled; on success ffmpeg.load is invoked
BlobWasm ==
  /\ pc = "blob_wasm"
  /\ \E ok \in BOOLEAN :
       IF ok THEN Goto("engine_load") /\ engineLoads' = engineLoads + 1
       ELSE Reject(InitErr) /\ engineLoads' = engineLoads
  /\ UNCHANGED <<ffmpeg, loaded, instances, logListeners, progressListeners,
                 retries, loadFrame>>

\* ffmpeg.load settled
EngineLoad ==
  /\ pc = "engine_load"
  /\ \E ok \in BOOLEAN :
       IF ok THEN loaded' = TRUE /\ LoadReturns
       ELSE loaded' = loaded /\ Reject(InitErr)
  /\ UNCHANGED <<ffmpeg, instances, engineVars, retries, loadFrame>>

\* the library script finished loading
GlobalsArrive ==
  /\ ~globalsAvail
  /\ globalsAvail' = TRUE
  /\ UNCHANGED <<svcVars, retries, engineVars, logCallback, progressCallback,
                 other, eventVars, appSide>>

(***************************************************************************)
(* processVideo                                                            *)
(***************************************************************************)
\* first variant only: "CRITICAL CLEANUP" of a previous session's mount
PreUnmount ==
  /\ pc = "pre_unmount"
  /\ \E fail \in BOOLEAN :
       LET ok == UnmountOk(fail) IN
       /\ Call("unmount", mountDir, ok, 0)
       /\ fsDir' = IF ok THEN "dir" ELSE fsDir
       /\ Goto(IF ok THEN "pre_delete_dir" ELSE "create_dir")
  /\ UNCHANGED <<svcConfig, ffmpeg, loaded, instances, fsFiles, usedMount,
                 subName, args>>
  /\ UNCHANGED <<colVars, presetVars, appVars, loadVars, uiVars>>

PreDeleteDir ==
  /\ pc = "pre_delete_dir"
  /\ \E fail \in BOOLEAN :
       LET ok == DeleteDirOk(fail) IN
       /\ Call("deleteDir", mountDir, ok, 0)
       /\ fsDir' = IF ok THEN "absent" ELSE fsDir
       /\ Goto("create_dir")
  /\ UNCHANGED <<svcConfig, ffmpeg, loaded, instances, fsFiles, usedMount,
                 subName, args>>
  /\ UNCHANGED <<colVars, presetVars, appVars, loadVars, uiVars>>

\* the argument list is built; the first variant tells the logger of a
\* large file on the way
Assemble ==
  LET LargeFileMsg == "Large file detected: Activating 720p downscaling to prevent memory crash..."
  IN  /\ args' = ProcessArgs
      /\ IF variant = 1 /\ isLargeFile
         THEN /\ evSent' = <<"service", LargeFileMsg>>
              /\ evDelivered' = Deliveries(1, logCallback, LargeFileMsg)
         ELSE UNCHANGED eventVars

\* mutant of MountFailed: the size check is left out
MountFailedNoCeiling == Catch("fallback_fetch", EngineErr("mount"))

\* the catch block of the mount attempt
MountFailed ==
  IF isLargeFile THEN Reject(MountLargeErr)
  ELSE Catch("fallback_fetch", EngineErr("mount"))

CreateDir ==
  /\ pc = "create_dir"
  /\ \E fail \in BOOLEAN :
       LET ok == CreateDirOk(fail) IN
       /\ Call("createDir", mountDir, ok, 0)
       /\ fsDir' = IF ok THEN "dir" ELSE fsDir
       /\ IF ok THEN Goto("mount") ELSE MountFailed
  /\ UNCHANGED <<svcConfig, ffmpeg, loaded, instances, fsFiles, usedMount,
                 subName, args>>
  /\ UNCHANGED <<colVars, presetVars, appVars, loadVars, uiVars>>

Mount ==
  /\ pc = "mount"
  /\ \E fail \in BOOLEAN :
       LET ok == MountOk(fail) IN
       /\ Call("mount", mountedName, ok, 0)
       /\ fsDir' = IF ok THEN "mounted" ELSE fsDir
       /\ usedMount' = ok
       /\ IF ~ok THEN MountFailed /\ UNCHANGED <<subName, args, eventVars>>
          ELSE IF subFile # NoFile
          THEN /\ Goto("fetch_sub")
               /\ subName' = StagedSubName("subtitles")
               /\ UNCHANGED <<args, eventVars>>
          ELSE Goto("exec") /\ Assemble /\ UNCHANGED subName
  /\ UNCHANGED <<svcConfig, ffmpeg, loaded, instances, fsFiles>>
  /\ UNCHANGED <<loadRest, appSide>>

\* the buffered-copy fallback, in the catch block of the mount attempt:
\* fetchFile(videoFile) settled; an error it throws is the call's error
FallbackFetch ==
  /\ pc = "fallback_fetch"
  /\ \E ok \in BOOLEAN :
       IF ok THEN Goto("fallback_write") ELSE Reject(EngineErr("fetchFile"))
  /\ UNCHANGED <<svcConfig, ffmpeg, loaded, instances, fsDir, fsFiles,
                 usedMount, subName, args, calls>>
  /\ UNCHANGED <<colVars, presetVars, appVars, loadVars, uiVars>>

\* writeFile(simpleName, ...) settled: the bytes are written, then the call
\* throws
FallbackWrite ==
  /\ pc = "fallback_write"
  /\ \E ok \in BOOLEAN :
       /\ Call("writeFile", simpleName, ok, 0)
       /\ fsFiles' = IF ok THEN fsFiles \cup {simpleName} ELSE fsFiles
       /\ Reject(IF ok THEN MountErr ELSE EngineErr("writeFile"))
  /\ UNCHANGED <<svcConfig, ffmpeg, loaded, instances, fsDir, usedMount,
                 subName, args>>
  /\ UNCHANGED <<colVars, presetVars, appVars, loadVars, uiVars>>

\* fetchFile(subFile) settled
FetchSub ==
  /\ pc = "fetch_sub"
  /\ \E ok \in BOOLEAN :
       IF ok THEN Goto("write_sub") ELSE Reject(EngineErr("fetchFile"))
  /\ UNCHANGED <<svcConfig, ffmpeg, loaded, instances, fsDir, fsFiles,
                 usedMount, subName, args, calls>>
  /\ UNCHANGED <<colVars, presetVars, appVars, loadVars, uiVars>>

\* writeFile(subName, ...) settled
WriteSub ==
  /\ pc = "write_sub"
  /\ \E ok \in BOOLEAN :
       /\ Call("writeFile", subName, ok, 0)
       /\ fsFiles' = IF ok THEN fsFiles \cup {subName} ELSE fsFiles
       /\ IF ok THEN Goto("exec") /\ Assemble
          ELSE Reject(EngineErr("writeFile")) /\ UNCHANGED <<args, eventVars>>
  /\ UNCHANGED <<svcConfig, ffmpeg, loaded, instances, fsDir, usedMount,
                 subName>>
  /\ UNCHANGED <<loadRest, appSide>>

\* mutant of ExecFailed: only a thrown error counts
ExecFailedThrowOnly(threw, result) == threw

\* `if (result !== 0) throw ...` inside the try around exec
ExecFailed(threw, result) == threw \/ result # 0

Exec ==
  /\ pc = "exec"
  /\ \E o \in ExecOutcomes :
       LET threw == o[1]  result == o[2]  wrote == o[3] IN
       /\ CallMade("exec", args[2], ~threw, result, wrote)
       /\ fsFiles' = IF wrote THEN fsFiles \cup {outputName} ELSE fsFiles
       /\ IF ExecFailed(threw, result)
          THEN LET e == IF threw THEN EngineErr("exec") ELSE ExitErr(result)
               IN  IF usedMount THEN Catch("fail_unmount", e) ELSE Reject(e)
          ELSE Goto("read")
  /\ UNCHANGED <<svcConfig, ffmpeg, loaded, instances, fsDir, usedMount,
                 subName, args>>
  /\ UNCHANGED <<colVars, presetVars, appVars, loadVars, uiVars>>

\* cleanup in the catch block of exec; `error` holds the caught error e
FailUnmount ==
  /\ pc = "fail_unmount"
  /\ \E fail \in BOOLEAN :
       LET ok == UnmountOk(fail) IN
       /\ Call("unmount", mountDir, ok, 0)
       /\ fsDir' = IF ok THEN "dir" ELSE fsDir
       /\ IF ok THEN Goto("fail_delete_dir")
          ELSE IF variant = 1 THEN Reject(error)
          ELSE Reject(EngineErr("unmount"))
  /\ UNCHANGED <<svcConfig, ffmpeg, loaded, instances, fsFiles, usedMount,
                 subName, args>>
  /\ UNCHANGED <<colVars, presetVars, appVars, loadVars, uiVars>>

FailDeleteDir ==
  /\ pc = "fail_delete_dir"
  /\ \E fail \in BOOLEAN :
       LET ok == DeleteDirOk(fail) IN
       /\ Call("deleteDir", mountDir, ok, 0)
       /\ fsDir' = IF ok THEN "absent" ELSE fsDir
       /\ IF ok \/ variant = 1 THEN Reject(error)
          ELSE Reject(EngineErr("deleteDir"))
  /\ UNCHANGED <<svcConfig, ffmpeg, loaded, instances, fsFiles, usedMount,
                 subName, args>>
  /\ UNCHANGED <<colVars, presetVars, appVars, loadVars, uiVars>>

\* where the final cleanup continues after the mount has been dealt with
AfterUnmount == IF subFile # NoFile THEN "delete_sub" ELSE "delete_output"

ReadOutput ==
  /\ pc = "read"
  /\ \E fail \in BOOLEAN :
       LET ok == FileOk(outputName, fail) IN
       /\ Call("readFile", outputName, ok, 0)
       /\ IF ~ok THEN Reject(ReadErr)
          ELSE Goto(IF usedMount THEN "final_unmount" ELSE AfterUnmount)
  /\ UNCHANGED <<svcConfig, ffmpeg, loaded, instances, fsDir, fsFiles,
                 usedMount, subName, args>>
  /\ UNCHANGED <<colVars, presetVars, appVars, loadVars, uiVars>>

FinalUnmount ==
  /\ pc = "final_unmount"
  /\ \E fail \in BOOLEAN :
       LET ok == UnmountOk(fail) IN
       /\ Call("unmount", mountDir, ok, 0)
       /\ fsDir' = IF ok THEN "dir" ELSE fsDir
       /\ IF ok THEN Goto("final_delete_dir")
          ELSE IF variant = 1 THEN Goto(AfterUnmount)
          ELSE Reject(EngineErr("unmount"))
  /\ UNCHANGED <<svcConfig, ffmpeg, loaded, instances, fsFiles, usedMount,
                 subName, args>>
  /\ UNCHANGED <<colVars, presetVars, appVars, loadVars, uiVars>>

FinalDeleteDir ==
  /\ pc = "final_delete_dir"
  /\ \E fail \in BOOLEAN :
       LET ok == DeleteDirOk(fail) IN
       /\ Call("deleteDir", mountDir, ok, 0)
       /\ fsDir' = IF ok THEN "absent" ELSE fsDir
       /\ IF ok \/ variant = 1 THEN Goto(AfterUnmount)
          ELSE Reject(EngineErr("deleteDir"))
  /\ UNCHANGED <<svcConfig, ffmpeg, loaded, instances, fsFiles, usedMount,
                 subName, args>>
  /\ UNCHANGED <<colVars, presetVars, appVars, loadVars, uiVars>>

DeleteSub ==
  /\ pc = "delete_sub"
  /\ \E fail \in BOOLEAN :
       LET ok == FileOk(subName, fail) IN
       /\ Call("deleteFile", subName, ok, 0)
       /\ fsFiles' = IF ok THEN fsFiles \ {subName} ELSE fsFiles
       /\ IF ok THEN Goto("delete_output")
          ELSE Reject(EngineErr("deleteFile"))
  /\ UNCHANGED <<svcConfig, ffmpeg, loaded, instances, fsDir, usedMount,
                 subName, args>>
  /\ UNCHANGED <<colVars, presetVars, appVars, loadVars, uiVars>>

DeleteOutput ==
  /\ pc = "delete_output"
  /\ \E fail \in BOOLEAN :
       LET ok == FileOk(outputName, fail) IN
       /\ Call("deleteFile", outputName, ok, 0)
       /\ fsFiles' = IF ok THEN fsFiles \ {outputName} ELSE fsFiles
       /\ IF ok THEN Resolve
          ELSE Reject(EngineErr("deleteFile")) /\ UNCHANGED urlSeq
  /\ UNCHANGED <<svcConfig, ffmpeg, loaded, instances, fsDir, usedMount,
                 subName, args>>
  /\ UNCHANGED <<colVars, presetVars, appVars, loadVars, uiRest>>

(***************************************************************************)
(* createPreview                                                           *)
(***************************************************************************)
inputName == "preview_input.mp4"
previewOutput == "preview_output.mp4"

\* The first variant stages the files inside its try block, the second
\* before it.
StageFailed(op) ==
  IF variant = 1 THEN Catch("pv_catch_input", EngineErr(op))
  ELSE Reject(EngineErr(op))

\* fetchFile(videoSlice) settled
PvFetchInput ==
  /\ pc = "pv_fetch_input"
  /\ \E ok \in BOOLEAN :
       IF ok THEN Goto("pv_write_input") ELSE StageFailed("fetchFile")
  /\ UNCHANGED <<svcConfig, ffmpeg, loaded, instances, fsDir, fsFiles,
                 usedMount, subName, args, calls>>
  /\ UNCHANGED <<colVars, presetVars, appVars, loadVars, uiVars>>

\* writeFile(inputName, ...) settled
PvWriteInput ==
  /\ pc = "pv_write_input"
  /\ \E ok \in BOOLEAN :
       /\ Call("writeFile", inputName, ok, 0)
       /\ fsFiles' = IF ok THEN fsFiles \cup {inputName} ELSE fsFiles
       /\ IF ~ok THEN StageFailed("writeFile") /\ UNCHANGED <<subName, args>>
          ELSE IF subFile # NoFile
          THEN /\ Goto("pv_fetch_sub")
               /\ subName' = StagedSubName("preview_sub")
               /\ UNCHANGED args
          ELSE Goto("pv_exec") /\ args' = PreviewArgs /\ UNCHANGED subName
  /\ UNCHANGED <<svcConfig, ffmpeg, loaded, instances, fsDir, usedMount>>
  /\ UNCHANGED <<colVars, presetVars, appVars, loadVars, uiVars>>

\* fetchFile(subFile) settled
PvFetchSub ==
  /\ pc = "pv_fetch_sub"
  /\ \E ok \in BOOLEAN :
       IF ok THEN Goto("pv_write_sub") ELSE StageFailed("fetchFile")
  /\ UNCHANGED <<svcConfig, ffmpeg, loaded, instances, fsDir, fsFiles,
                 usedMount, subName, args, calls>>
  /\ UNCHANGED <<colVars, presetVars, appVars, loadVars, uiVars>>

\* writeFile(subName, ...) settled
PvWriteSub ==
  /\ pc = "pv_write_sub"
  /\ \E ok \in BOOLEAN :
       /\ Call("writeFile", subName, ok, 0)
       /\ fsFiles' = IF ok THEN fsFiles \cup {subName} ELSE fsFiles
       /\ IF ok THEN Goto("pv_exec") /\ args' = PreviewArgs
          ELSE StageFailed("writeFile") /\ UNCHANGED args
  /\ UNCHANGED <<svcConfig, ffmpeg, loaded, instances, fsDir, usedMount,
                 subName>>
  /\ UNCHANGED <<colVars, presetVars, appVars, loadVars, uiVars>>

\* the status returned by exec is not looked at
PvExec ==
  /\ pc = "pv_exec"
  /\ \E o \in ExecOutcomes :
       LET threw == o[1]  result == o[2]  wrote == o[3] IN
       /\ CallMade("exec", args[2], ~threw, result, wrote)
       /\ fsFiles' = IF wrote THEN fsFiles \cup {previewOutput} ELSE fsFiles
       /\ IF threw THEN Catch("pv_catch_input", EngineErr("exec"))
          ELSE Goto("pv_read")
  /\ UNCHANGED <<svcConfig, ffmpeg, loaded, instances, fsDir, usedMount,
                 subName, args>>
  /\ UNCHANGED <<colVars, presetVars, appVars, loadVars, uiVars>>

PvRead ==
  /\ pc = "pv_read"
  /\ \E fail \in BOOLEAN :
       LET ok == FileOk(previewOutput, fail) IN
       /\ Call("readFile", previewOutput, ok, 0)
       /\ IF ok THEN Goto("pv_delete_input")
          ELSE Catch("pv_catch_input", EngineErr("readFile"))
  /\ UNCHANGED <<svcConfig, ffmpeg, loaded, instances, fsDir, fsFiles,
                 usedMount, subName, args>>
  /\ UNCHANGED <<colVars, presetVars, appVars, loadVars, uiVars>>

PvDeleteInput ==
  /\ pc = "pv_delete_input"
  /\ \E fail \in BOOLEAN :
       LET ok == FileOk(inputName, fail) IN
       /\ Call("deleteFile", inputName, ok, 0)
       /\ fsFiles' = IF ok THEN fsFiles \ {inputName} ELSE fsFiles
       /\ IF ~ok THEN Catch("pv_catch_input", EngineErr("deleteFile"))
          ELSE Goto(IF subFile # NoFile THEN "pv_delete_sub"
                    ELSE "pv_delete_output")
  /\ UNCHANGED <<svcConfig, ffmpeg, loaded, instances, fsDir, usedMount,
                 subName, args>>
  /\ UNCHANGED <<colVars, presetVars, appVars, loadVars, uiVars>>

PvDeleteSub ==
  /\ pc = "pv_delete_sub"
  /\ \E fail \in BOOLEAN :
       LET ok == FileOk(subName, fail) IN
       /\ Call("deleteFile", subName, ok, 0)
       /\ fsFiles' = IF ok THEN fsFiles \ {subName} ELSE fsFiles
       /\ IF ok THEN Goto("pv_delete_output")
          ELSE Catch("pv_catch_input", EngineErr("deleteFile"))
  /\ UNCHANGED <<svcConfig, ffmpeg, loaded, instances, fsDir, usedMount,
                 subName, args>>
  /\ UNCHANGED <<colVars, presetVars, appVars, loadVars, uiVars>>

PvDeleteOutput ==
  /\ pc = "pv_delete_output"
  /\ \E fail \in BOOLEAN :
       LET ok == FileOk(previewOutput, fail) IN
       /\ Call("deleteFile", previewOutput, ok, 0)
       /\ fsFiles' = IF ok THEN fsFiles \ {previewOutput} ELSE fsFiles
       /\ IF ok THEN Resolve
          ELSE Catch("pv_catch_input", EngineErr("deleteFile"))
                 /\ UNCHANGED urlSeq
  /\ UNCHANGED <<svcConfig, ffmpeg, loaded, instances, fsDir, usedMount,
                 subName, args>>
  /\ UNCHANGED <<colVars, presetVars, appVars, loadVars, uiRest>>

\* catch block: "Attempt cleanup", then the fixed preview error.  The first
\* variant wraps each deleteFile in its own try; the second wraps both in
\* one, so a failing first delete skips the second.
PvCatchDeleteInput ==
  /\ pc = "pv_catch_input"
  /\ \E fail \in BOOLEAN :
       LET ok == FileOk(inputName, fail) IN
       /\ Call("deleteFile", inputName, ok, 0)
       /\ fsFiles' = IF ok THEN fsFiles \ {inputName} ELSE fsFiles
       /\ IF subFile # NoFile /\ (ok \/ variant = 1)
          THEN Goto("pv_catch_sub")
          ELSE Reject(PreviewErr)
  /\ UNCHANGED <<svcConfig, ffmpeg, loaded, instances, fsDir, usedMount,
                 subName, args>>
  /\ UNCHANGED <<colVars, presetVars, appVars, loadVars, uiVars>>

PvCatchDeleteSub ==
  /\ pc = "pv_catch_sub"
  /\ \E fail \in BOOLEAN :
       LET ok == FileOk(subName, fail) IN
       /\ Call("deleteFile", subName, ok, 0)
       /\ fsFiles' = IF ok THEN fsFiles \ {subName} ELSE fsFiles
       /\ Reject(PreviewErr)
  /\ UNCHANGED <<svcConfig, ffmpeg, loaded, instances, fsDir, usedMount,
                 subName, args>>
  /\ UNCHANGED <<colVars, presetVars, appVars, loadVars, uiVars>>

\* the promise has settled and the caller has taken the result; the service
\* is ready for the next call
Return ==
  /\ pc = "done"
  /\ pc' = "idle"
  /\ UNCHANGED <<svcConfig, ffmpeg, loaded, instances, fsDir, fsFiles,
                 usedMount, subName, args, calls, outcome, error, url>>
  /\ UNCHANGED <<colVars, presetVars, appVars, loadVars, uiVars>>

(***************************************************************************)
(* Specification of the service: calls made one after another              *)
(***************************************************************************)
InitSvc ==
  /\ variant \in {1, 2}
  /\ ffmpeg = FALSE /\ loaded = FALSE /\ instances = 0
  /\ fsDir = "absent" /\ fsFiles = {}
  /\ pc = "idle" /\ kind = "none"
  /\ videoName = "" /\ videoSize = <<0, 0>> /\ subFile = NoFile /\ fps = 30
  /\ style = ClassicYellow /\ outputName = ""
  /\ usedMount = FALSE /\ subName = "" /\ args = <<>> /\ calls = <<>>
  /\ outcome = "none" /\ error = "" /\ url = ""
  /\ jobs = 0

InitCol ==
  hexIn = "" /\ colorField = "primaryColor" /\ assOut = "" /\ styleOut = ""
InitApp ==
  step = "UPLOAD" /\ videoFile = NoFile /\ subStyle = PRESETS[1].style
    /\ lastUi = "none"

NoJob == <<>>

\* the state of the running call
Context ==
  [pc |-> pc, kind |-> kind, videoName |-> videoName,
   videoSize |-> videoSize, subFile |-> subFile, fps |-> fps,
   style |-> style, outputName |-> outputName, usedMount |-> usedMount,
   subName |-> subName, args |-> args, calls |-> calls,
   outcome |-> outcome, error |-> error, url |-> url, retries |-> retries]

\* the state of a call that was never made
IdleContext ==
  [pc |-> "idle", kind |-> "none", videoName |-> "",
   videoSize |-> <<0, 0>>, subFile |-> NoFile, fps |-> 30,
   style |-> ClassicYellow, outputName |-> "", usedMount |-> FALSE,
   subName |-> "", args |-> <<>>, calls |-> <<>>,
   outcome |-> "none", error |-> "", url |-> "", retries |-> 0]

InitLoad ==
  /\ globalsAvail \in BOOLEAN
  /\ retries = 0 /\ other = IdleContext
  /\ engineLoads = 0 /\ logListeners = 0 /\ progressListeners = 0
  /\ logCallback = 0 /\ progressCallback = 0
  /\ evSent = <<>> /\ evDelivered = <<>>

InitUi ==
  /\ appSub = NoFile /\ appError = "" /\ outputUrl = "" /\ previewUrl = ""
  /\ isProcessing = FALSE /\ isPreviewGenerating = FALSE
  /\ pJob = NoJob /\ rJob = NoJob /\ urlSeq = 0
  /\ appFps = 30 /\ appProgress = 0 /\ revoked = {} /\ previewOf = NoJob

NoPresets == customPresets = <<>>

\* what the specifications of other parts leave untouched
InitRest == InitLoad /\ globalsAvail /\ InitUi

Init == InitSvc /\ InitCol /\ InitApp /\ NoPresets /\ InitLoad /\ InitUi

Next ==
  \/ \E inp \in JobInputs : jobs < MaxJobs /\ StartPreview(inp)
  \/ \E inp \in JobInputs : jobs < MaxJobs /\ StartProcess(inp)
  \/ Poll \/ Create \/ BlobCore \/ BlobWasm \/ EngineLoad
  \/ PreUnmount \/ PreDeleteDir \/ CreateDir \/ Mount
  \/ FallbackFetch \/ FallbackWrite \/ FetchSub \/ WriteSub
  \/ Exec \/ FailUnmount \/ FailDeleteDir \/ ReadOutput
  \/ FinalUnmount \/ FinalDeleteDir \/ DeleteSub \/ DeleteOutput
  \/ PvFetchInput \/ PvWriteInput \/ PvFetchSub \/ PvWriteSub
  \/ PvExec \/ PvRead
  \/ PvDeleteInput \/ PvDeleteSub \/ PvDeleteOutput
  \/ PvCatchDeleteInput \/ PvCatchDeleteSub
  \/ Return
  \/ GlobalsArrive

Spec == Init /\ [][Next]_vars

(***************************************************************************)
(* Specification of the Style Translator: one colour string is put into    *)
(* one colour field of a style and translated.                             *)
(***************************************************************************)
HexAlphabet == {"#", "0", "A", "f"}

RECURSIVE StringsOfLen(_)
StringsOfLen(n) ==
  IF n = 0 THEN {""}
  ELSE {s \o c : s \in StringsOfLen(n - 1), c \in HexAlphabet}

HexInputs == UNION {StringsOfLen(n) : n \in 0..MaxHexLen}

StyleWith(field, hex) == [ClassicYellow EXCEPT ![field] = hex]

InitTranslate ==
  /\ hexIn \in HexInputs
  /\ colorField \in {"primaryColor", "outlineColor"}
  /\ assOut = "" /\ styleOut = ""
  /\ InitSvc /\ variant = 1 /\ InitApp /\ NoPresets /\ InitRest

Translate ==
  /\ assOut = ""
  /\ assOut' = toAssColor(hexIn)
  /\ styleOut' = generateStyleString(StyleWith(colorField, hexIn))
  /\ UNCHANGED <<hexIn, colorField, svcVars, presetVars, appVars, loadVars,
                 uiVars>>

NextTranslate == Translate

SpecTranslate == InitTranslate /\ [][NextTranslate]_vars

(***************************************************************************)
(* Specification of the App's style panel (SETTINGS step)                  *)
(***************************************************************************)
Positions == {"top", "middle", "bottom"}

\* mutant of PositionCode: top and bottom exchanged
PositionCodeSwapped(p) ==
  CASE p = "top" -> 2
    [] p = "middle" -> 5
    [] p = "bottom" -> 8

\* the onClick handlers of the TOP, MIDDLE and BOTTOM buttons
PositionCode(p) ==
  CASE p = "top" -> 8
    [] p = "middle" -> 5
    [] p = "bottom" -> 2

UploadNames == {"my clip.mkv", "b.mp4"}
FontSizes == {12, 72}
PickedColors == {"#ff0000"}
OutlineHalves == {0, 5}
MarginValues == {0, 200}

\* What localStorage holds under 'javth_custom_presets' when the App is
\* mounted: nothing, or a list a previous session left.  The stored text is
\* parsed and taken as it is.
StoredPresets ==
  LET StoredStyle ==
        [fontSize |-> 99, primaryColor |-> "#123456",
         outlineColor |-> "#654321", outlineHalves |-> 14, marginV |-> 1,
         alignment |-> 9, bold |-> TRUE, italic |-> TRUE]
  IN  {<<>>, <<[name |-> "old", style |-> StoredStyle]>>}

\* what is typed into the Preset Name field
PresetNames == {"mine", " "}
MaxPresets == 2     \* saved styles kept at a time

handleVideoUpload ==
  /\ step = "UPLOAD"
  /\ \E f \in UploadNames : videoFile' = f
  /\ appError' = "" /\ previewUrl' = "" /\ previewOf' = NoJob
  /\ revoked' = revoked \cup ({previewUrl} \ {""})
  /\ lastUi' = "upload"
  /\ UNCHANGED <<step, subStyle>>
  /\ UNCHANGED <<appSub, outputUrl, isProcessing, isPreviewGenerating, pJob,
                 rJob, urlSeq, appFps, appProgress>>
  /\ UNCHANGED <<svcVars, colVars, presetVars, loadVars>>

\* mutant of ConfigureOutput: the button is not disabled without a video
ConfigureOutputUnguarded ==
  /\ step = "UPLOAD"
  /\ step' = "SETTINGS"
  /\ lastUi' = "configure"
  /\ UNCHANGED <<videoFile, subStyle>>
  /\ UNCHANGED <<svcVars, colVars, presetVars, loadVars, uiVars>>

ConfigureOutput ==
  /\ step = "UPLOAD" /\ videoFile # NoFile
  /\ step' = "SETTINGS"
  /\ lastUi' = "configure"
  /\ UNCHANGED <<videoFile, subStyle>>
  /\ UNCHANGED <<svcVars, colVars, presetVars, loadVars, uiVars>>

\* mutant of Back: the button is also there while a job is processed
BackAnyStep ==
  /\ step \in {"SETTINGS", "PROCESSING"}
  /\ step' = "UPLOAD"
  /\ lastUi' = "back"
  /\ UNCHANGED <<videoFile, subStyle>>
  /\ UNCHANGED <<svcVars, colVars, presetVars, loadVars, uiVars>>

Back ==
  /\ step = "SETTINGS"
  /\ step' = "UPLOAD"
  /\ lastUi' = "back"
  /\ UNCHANGED <<videoFile, subStyle>>
  /\ UNCHANGED <<svcVars, colVars, presetVars, loadVars, uiVars>>

SetStyle(newStyle, ui) ==
  /\ step = "SETTINGS"
  /\ subStyle' = newStyle
  /\ lastUi' = ui
  /\ UNCHANGED <<step, videoFile>>
  /\ UNCHANGED <<svcVars, colVars, presetVars, loadVars, uiVars>>

SelectPreset == \E i \in 1..Len(PRESETS) : SetStyle(PRESETS[i].style, "preset")

\* a button of the "My Saved Styles" grid
SelectCustomPreset ==
  \E i \in 1..Len(customPresets) : SetStyle(customPresets[i].style, "custom")

\* a name that String.prototype.trim() leaves empty saves nothing
handleSavePreset ==
  /\ step = "SETTINGS" /\ Len(customPresets) < MaxPresets
  /\ \E name \in PresetNames :
       customPresets' =
         IF \A i \in 1..Len(name) : CharAt(name, i) = " " THEN customPresets
         ELSE Append(customPresets, [name |-> name, style |-> subStyle])
  /\ lastUi' = "save"
  /\ UNCHANGED <<step, videoFile, subStyle>>
  /\ UNCHANGED <<svcVars, colVars, loadVars, uiVars>>

\* the bin on a saved style, the confirm dialog answered with OK
handleDeletePreset ==
  /\ step = "SETTINGS"
  /\ \E index \in 1..Len(customPresets) :
       customPresets' = SubSeq(customPresets, 1, index - 1)
                          \o SubSeq(customPresets, index + 1,
                                    Len(customPresets))
  /\ lastUi' = "delete"
  /\ UNCHANGED <<step, videoFile, subStyle>>
  /\ UNCHANGED <<svcVars, colVars, loadVars, uiVars>>

ClickPosition ==
  \E p \in Positions :
    SetStyle([subStyle EXCEPT !.alignment = PositionCode(p)], p)

SetFontSize ==
  \E v \in FontSizes : SetStyle([subStyle EXCEPT !.fontSize = v], "size")

SetMarginV ==
  \E v \in MarginValues : SetStyle([subStyle EXCEPT !.marginV = v], "margin")

SetPrimaryColor ==
  \E c \in PickedColors :
    SetStyle([subStyle EXCEPT !.primaryColor = c], "color")

SetOutlineColor ==
  \E c \in PickedColors :
    SetStyle([subStyle EXCEPT !.outlineColor = c], "outline")

SetOutlineWidth ==
  \E h \in OutlineHalves :
    SetStyle([subStyle EXCEPT !.outlineHalves = h], "width")

ToggleBold == SetStyle([subStyle EXCEPT !.bold = ~subStyle.bold], "bold")

ToggleItalic ==
  SetStyle([subStyle EXCEPT !.italic = ~subStyle.italic], "italic")

InitStyle ==
  /\ InitSvc /\ variant = 1 /\ InitCol /\ InitApp /\ InitRest
  /\ customPresets \in StoredPresets

NextStyle ==
  \/ handleVideoUpload \/ ConfigureOutput \/ Back
  \/ SelectPreset \/ SelectCustomPreset \/ ClickPosition
  \/ SetFontSize \/ SetMarginV
  \/ SetPrimaryColor \/ SetOutlineColor \/ SetOutlineWidth
  \/ ToggleBold \/ ToggleItalic

SpecStyle == InitStyle /\ [][NextStyle]_vars

\* the saved styles: a style is picked, saved, picked again, deleted
NextPresets ==
  \/ handleVideoUpload \/ ConfigureOutput \/ Back
  \/ SelectPreset \/ SelectCustomPreset \/ ClickPosition
  \/ handleSavePreset \/ handleDeletePreset

SpecPresets == InitStyle /\ [][NextPresets]_vars

(***************************************************************************)
(* Specification of the load-once lifecycle: load, setLogger, setProgress, *)
(* createPreview and processVideo calls made one after another, and the    *)
(* engine's events.                                                        *)
(***************************************************************************)
MaxCalls == 2
CallbackIds == {1, 2}
ProgressPerMille == {285, 995}

\* Math.round(progress * 100) for a progress of p thousandths, 0 <= p <= 1000:
\* the double product is rounded, halves upwards.  BelowHalf holds the
\* values whose product with 100 is a double just below a half although
\* p / 10 is exactly a half: 0.285 * 100 is 28.499999999999996.
RoundPercent(p) ==
  LET BelowHalf == {145, 285, 565, 575}
  IN  IF p \in BelowHalf THEN p \div 10 ELSE (p + 5) \div 10

\* the arguments of the calls of this specification: a video above 2 GiB
\* without a subtitle
LifecycleInputs ==
  {inp \in JobInputs :
     /\ inp.videoSize = <<LargeGiB, 1>> /\ inp.subFile = NoFile
     /\ inp.style = ClassicYellow}

\* the service state that only createPreview / processVideo touch
bodyVars == <<svcConfig, pc, fsDir, fsFiles, usedMount, subName, args, calls,
              outcome, error, url>>

\* the second variant's setters call ensureInstance after the assignment;
\* it throws when there is neither an instance nor the library
EnsureAfterSet ==
  IF variant = 2 /\ (~needInstance \/ globalsAvail) THEN Construct
  ELSE NoConstruct

setLogger(cb) ==
  /\ logCallback' = cb
  /\ EnsureAfterSet
  /\ UNCHANGED <<loaded, engineLoads, globalsAvail, retries, other>>
  /\ UNCHANGED <<progressCallback, eventVars>>
  /\ UNCHANGED <<bodyVars, appSide>>

setProgress(cb) ==
  /\ progressCallback' = cb
  /\ EnsureAfterSet
  /\ UNCHANGED <<loaded, engineLoads, globalsAvail, retries, other>>
  /\ UNCHANGED <<logCallback, eventVars>>
  /\ UNCHANGED <<bodyVars, appSide>>

\* the engine is at work for a call: it is loading or running exec
EngineBusy ==
  LET EngineSteps == {"engine_load", "exec", "pv_exec"}
  IN  pc \in EngineSteps \/ other.pc \in EngineSteps

EmitLog(message) ==
  /\ ffmpeg /\ EngineBusy
  /\ evSent' = <<"log", message>>
  /\ evDelivered' = Deliveries(logListeners, logCallback, message)
  /\ UNCHANGED <<ffmpeg, loaded, instances, engineVars, retries, other>>
  /\ UNCHANGED <<logCallback, progressCallback, globalsAvail>>
  /\ UNCHANGED <<bodyVars, appSide>>

EmitProgress(progress) ==
  /\ ffmpeg /\ EngineBusy
  /\ evSent' = <<"progress", progress>>
  /\ evDelivered' =
       Deliveries(progressListeners, progressCallback, RoundPercent(progress))
  /\ UNCHANGED <<ffmpeg, loaded, instances, engineVars, retries, other>>
  /\ UNCHANGED <<logCallback, progressCallback, globalsAvail>>
  /\ UNCHANGED <<bodyVars, appSide>>

\* Two calls are in flight: the event loop turns from the one to the
\* other, whose state becomes the running call's.
Resume ==
  /\ other # Context
  /\ pc' = other.pc /\ kind' = other.kind
  /\ videoName' = other.videoName /\ videoSize' = other.videoSize
  /\ subFile' = other.subFile /\ fps' = other.fps
  /\ style' = other.style /\ outputName' = other.outputName
  /\ usedMount' = other.usedMount /\ subName' = other.subName
  /\ args' = other.args /\ calls' = other.calls
  /\ outcome' = other.outcome /\ error' = other.error /\ url' = other.url
  /\ retries' = other.retries
  /\ other' = Context
  /\ UNCHANGED <<variant, ffmpeg, loaded, instances, fsDir, fsFiles, jobs>>
  /\ UNCHANGED <<globalsAvail, engineVars, logCallback, progressCallback>>
  /\ UNCHANGED <<eventVars, appSide>>

InitLoadSpec ==
  InitSvc /\ InitCol /\ InitApp /\ NoPresets /\ InitLoad /\ InitUi

\* the steps of the calls; with these arguments no subtitle is staged and a
\* failed mount rejects, so the steps that write or delete a subtitle and
\* the fallback write have no part
NextCalls ==
  \/ jobs < MaxCalls /\ StartLoad
  \/ \E inp \in LifecycleInputs : jobs < MaxCalls /\ StartPreview(inp)
  \/ \E inp \in LifecycleInputs : jobs < MaxCalls /\ StartProcess(inp)
  \/ Poll \/ Create \/ BlobCore \/ BlobWasm \/ EngineLoad
  \/ PreUnmount \/ PreDeleteDir \/ CreateDir \/ Mount
  \/ Exec \/ FailUnmount \/ FailDeleteDir \/ ReadOutput
  \/ FinalUnmount \/ FinalDeleteDir \/ DeleteOutput
  \/ PvFetchInput \/ PvWriteInput \/ PvExec \/ PvRead
  \/ PvDeleteInput \/ PvDeleteOutput
  \/ PvCatchDeleteInput
  \/ Return
  \/ GlobalsArrive

\* every call is awaited before the next one is made
NextLoad ==
  \/ NextCalls
  \/ \E cb \in CallbackIds : setLogger(cb)
  \/ \E cb \in CallbackIds : setProgress(cb)
  \/ \E message \in {"frame=1"} : EmitLog(message)
  \/ \E progress \in ProgressPerMille : EmitProgress(progress)

SpecLoad == InitLoadSpec /\ [][NextLoad]_vars

\* the timers of waitForGlobals fire
SpecLoadFair == SpecLoad /\ WF_vars(Poll)

\* a second call may be made while one is in flight
NextOverlap == NextCalls \/ Resume

SpecOverlap == InitLoadSpec /\ [][NextOverlap]_vars

(***************************************************************************)
(* Specification of the App's jobs: the preview and the render started     *)
(* from the SETTINGS view, each a service call that settles later.  A      *)
(* change of previewUrl runs the cleanup of the preview effect, which      *)
(* revokes the previous URL.                                               *)
(***************************************************************************)
MaxUrls == 3
AppPreviewErr == "Preview failed. The file format might be incompatible with partial reading."
\* the messages startProcessing can show: the message of the Error that
\* processVideo (first variant) rejected with, or the fixed text when the
\* value thrown is not an Error
RenderErrors ==
  {LibraryErr, InitErr, MountLargeErr, MountErr, EngineErr("writeFile"),
   EngineErr("fetchFile"), EngineErr("exec"), ExitErr(1), ReadErr,
   EngineErr("deleteFile"),
   "Unknown error occurred"}
AppCallback == 1

JobsInFlight ==
  (IF pJob = NoJob THEN 0 ELSE 1) + (IF rJob = NoJob THEN 0 ELSE 1)

handleSubUpload ==
  /\ step = "UPLOAD"
  /\ \E f \in {"movie.srt"} : appSub' = f
  /\ appError' = "" /\ previewUrl' = "" /\ previewOf' = NoJob
  /\ revoked' = revoked \cup ({previewUrl} \ {""})
  /\ lastUi' = "upload_sub"
  /\ UNCHANGED <<step, videoFile, subStyle>>
  /\ UNCHANGED <<outputUrl, isProcessing, isPreviewGenerating, pJob, rJob,
                 urlSeq, appFps, appProgress>>
  /\ UNCHANGED <<svcVars, colVars, presetVars, loadVars>>

\* the Change button of the video card
RemoveVideo ==
  /\ step = "UPLOAD" /\ videoFile # NoFile
  /\ videoFile' = NoFile
  /\ lastUi' = "remove_video"
  /\ UNCHANGED <<step, subStyle>>
  /\ UNCHANGED <<svcVars, colVars, presetVars, loadVars, uiVars>>

\* the Remove link of the subtitle card
RemoveSub ==
  /\ step = "UPLOAD" /\ appSub # NoFile
  /\ appSub' = NoFile
  /\ lastUi' = "remove_sub"
  /\ UNCHANGED <<step, videoFile, subStyle>>
  /\ UNCHANGED <<appError, outputUrl, previewUrl, isProcessing,
                 isPreviewGenerating, pJob, rJob, urlSeq, appFps, appProgress,
                 revoked, previewOf>>
  /\ UNCHANGED <<svcVars, colVars, presetVars, loadVars>>

\* the frame rate slider
SetFps ==
  /\ step = "SETTINGS"
  /\ \E f \in {15} : appFps' = f
  /\ lastUi' = "fps"
  /\ UNCHANGED <<step, videoFile, subStyle>>
  /\ UNCHANGED <<appSub, appError, outputUrl, previewUrl, isProcessing,
                 isPreviewGenerating, pJob, rJob, urlSeq, appProgress,
                 revoked, previewOf>>
  /\ UNCHANGED <<svcVars, colVars, presetVars, loadVars>>

\* the GENERATE / REFRESH button, up to the await of createPreview
generatePreview ==
  /\ step = "SETTINGS" /\ ~isPreviewGenerating
  /\ videoFile # NoFile
  /\ urlSeq + JobsInFlight < MaxUrls
  /\ isPreviewGenerating' = TRUE
  /\ appError' = "" /\ previewUrl' = "" /\ previewOf' = NoJob
  /\ revoked' = revoked \cup ({previewUrl} \ {""})
  /\ pJob' = <<videoFile, appSub, appFps, subStyle>>
  /\ lastUi' = "preview"
  /\ UNCHANGED <<step, videoFile, subStyle>>
  /\ UNCHANGED <<appSub, outputUrl, isProcessing, rJob, urlSeq, appFps,
                 appProgress>>
  /\ UNCHANGED <<svcVars, colVars, presetVars, loadVars>>

\* createPreview settled: the rest of generatePreview
PreviewSettles ==
  /\ pJob # NoJob
  /\ \E ok \in BOOLEAN :
       IF ok
       THEN /\ urlSeq' = urlSeq + 1
            /\ previewUrl' = "blob:" \o ToString(urlSeq + 1)
            /\ previewOf' = pJob
            /\ revoked' = revoked \cup ({previewUrl} \ {""})
            /\ appError' = appError
       ELSE /\ appError' = AppPreviewErr
            /\ UNCHANGED <<urlSeq, previewUrl, previewOf, revoked>>
  /\ isPreviewGenerating' = FALSE
  /\ pJob' = NoJob
  /\ UNCHANGED <<appSub, outputUrl, isProcessing, rJob, appFps, appProgress>>
  /\ UNCHANGED <<appVars, svcVars, colVars, presetVars, loadVars>>

\* the START RENDERING button, up to the await of processVideo
startProcessing ==
  /\ step = "SETTINGS"
  /\ videoFile # NoFile
  /\ urlSeq + JobsInFlight < MaxUrls
  /\ step' = "PROCESSING"
  /\ isProcessing' = TRUE
  /\ appProgress' = 0
  /\ appError' = ""
  /\ logCallback' = AppCallback /\ progressCallback' = AppCallback
  /\ rJob' = <<videoFile, appSub, appFps, subStyle>>
  /\ lastUi' = "render"
  /\ UNCHANGED <<videoFile, subStyle>>
  /\ UNCHANGED <<appSub, outputUrl, previewUrl, isPreviewGenerating, pJob,
                 urlSeq, appFps, revoked, previewOf>>
  /\ UNCHANGED <<globalsAvail, retries, engineVars, eventVars, other>>
  /\ UNCHANGED <<svcVars, colVars, presetVars>>

\* the callback given to setProgress is called by the 'progress' listener
\* while a job runs
onProgress ==
  /\ progressCallback = AppCallback /\ JobsInFlight > 0
  /\ \E p \in ProgressPerMille : appProgress' = RoundPercent(p)
  /\ UNCHANGED <<appSub, appError, outputUrl, previewUrl, isProcessing,
                 isPreviewGenerating, pJob, rJob, urlSeq, appFps, revoked,
                 previewOf>>
  /\ UNCHANGED <<appVars, svcVars, colVars, presetVars, loadVars>>

\* mutant of RenderSettles: a failed job leaves the App on the upload view
RenderSettlesToUpload ==
  /\ rJob # NoJob
  /\ \E ok \in BOOLEAN :
       IF ok
       THEN /\ urlSeq' = urlSeq + 1
            /\ outputUrl' = "blob:" \o ToString(urlSeq + 1)
            /\ step' = "COMPLETED"
            /\ appError' = appError
       ELSE /\ \E msg \in RenderErrors : appError' = msg
            /\ step' = "UPLOAD"
            /\ UNCHANGED <<urlSeq, outputUrl>>
  /\ isProcessing' = FALSE
  /\ rJob' = NoJob
  /\ UNCHANGED <<videoFile, subStyle, lastUi>>
  /\ UNCHANGED <<appSub, previewUrl, isPreviewGenerating, pJob, appFps,
                 appProgress, revoked, previewOf>>
  /\ UNCHANGED <<svcVars, colVars, presetVars, loadVars>>

\* processVideo settled: the rest of startProcessing
RenderSettles ==
  /\ rJob # NoJob
  /\ \E ok \in BOOLEAN :
       IF ok
       THEN /\ urlSeq' = urlSeq + 1
            /\ outputUrl' = "blob:" \o ToString(urlSeq + 1)
            /\ step' = "COMPLETED"
            /\ appError' = appError
       ELSE /\ \E msg \in RenderErrors : appError' = msg
            /\ step' = "SETTINGS"
            /\ UNCHANGED <<urlSeq, outputUrl>>
  /\ isProcessing' = FALSE
  /\ rJob' = NoJob
  /\ UNCHANGED <<videoFile, subStyle, lastUi>>
  /\ UNCHANGED <<appSub, previewUrl, isPreviewGenerating, pJob, appFps,
                 appProgress, revoked, previewOf>>
  /\ UNCHANGED <<svcVars, colVars, presetVars, loadVars>>

\* mutant of resetApp: the preview URL is kept
resetAppKeepsPreview ==
  /\ step = "COMPLETED" /\ outputUrl # ""
  /\ step' = "UPLOAD"
  /\ videoFile' = NoFile /\ appSub' = NoFile
  /\ outputUrl' = "" /\ appProgress' = 0 /\ appError' = ""
  /\ lastUi' = "reset"
  /\ UNCHANGED subStyle
  /\ UNCHANGED <<isProcessing, isPreviewGenerating, pJob, rJob, urlSeq,
                 appFps, previewUrl, previewOf, revoked>>
  /\ UNCHANGED <<svcVars, colVars, presetVars, loadVars>>

resetApp ==
  /\ step = "COMPLETED" /\ outputUrl # ""
  /\ step' = "UPLOAD"
  /\ videoFile' = NoFile /\ appSub' = NoFile
  /\ outputUrl' = "" /\ previewUrl' = "" /\ previewOf' = NoJob
  /\ revoked' = revoked \cup ({previewUrl} \ {""})
  /\ appProgress' = 0 /\ appError' = ""
  /\ lastUi' = "reset"
  /\ UNCHANGED subStyle
  /\ UNCHANGED <<isProcessing, isPreviewGenerating, pJob, rJob, urlSeq,
                 appFps>>
  /\ UNCHANGED <<svcVars, colVars, presetVars, loadVars>>

InitAppSpec ==
  InitSvc /\ variant = 1 /\ InitCol /\ InitApp /\ NoPresets /\ InitLoad
    /\ globalsAvail /\ InitUi

NextApp ==
  \/ handleVideoUpload \/ handleSubUpload \/ RemoveVideo \/ RemoveSub
  \/ ConfigureOutput \/ Back \/ SetFps \/ ToggleBold
  \/ generatePreview \/ PreviewSettles
  \/ startProcessing \/ onProgress \/ RenderSettles
  \/ resetApp

SpecApp == InitAppSpec /\ [][NextApp]_vars

\* every service call settles
SpecAppFair == SpecApp /\ WF_vars(RenderSettles) /\ WF_vars(PreviewSettles)

(***************************************************************************)
(* Properties                                                              *)
(***************************************************************************)
Contains(s, sub) ==
  \E i \in 1..(Len(s) - Len(sub) + 1) : SubSeq(s, i, i + Len(sub) - 1) = sub

CountOcc(s, sub) ==
  Cardinality({i \in 1..(Len(s) - Len(sub) + 1) :
                 SubSeq(s, i, i + Len(sub) - 1) = sub})

StartsWith(s, prefix) == SubSeq(s, 1, Len(prefix)) = prefix

CallIdx == 1..Len(calls)
Made(op) == {i \in CallIdx : calls[i].op = op}
MadeOn(op, arg) == {i \in CallIdx : calls[i].op = op /\ calls[i].arg = arg}
Failed(op) == {i \in CallIdx : calls[i].op = op /\ ~calls[i].ok}

Process1 == kind = "process" /\ variant = 1
\* the call has resolved or rejected (and no later call has started)
Settled == pc \in {"done", "idle"} /\ outcome # "none"

\* the value that follows '-vf' in the assembled argument list
VfIdx == {i \in 1..Len(args) : args[i] = "-vf"}
VfValue == args[(CHOOSE i \in VfIdx : TRUE) + 1]
NotAboveLarge == videoSize[1] < LargeGiB \/ videoSize = <<LargeGiB, 0>>

\* C1: when a processVideo call of the first variant has settled, every
\* engine resource it created (directory, mount, written file, output of
\* exec) is followed in the call log by a matching deleteDir, unmount or
\* deleteFile call.
C1_EveryResourceReleased ==
  (Process1 /\ Settled) =>
    \A i \in CallIdx :
      calls[i].made =>
        /\ calls[i].op = "createDir" =>
             \E j \in Made("deleteDir") : j > i
        /\ calls[i].op = "mount" =>
             \E j \in Made("unmount") : j > i
        /\ calls[i].op = "writeFile" =>
             \E j \in MadeOn("deleteFile", calls[i].arg) : j > i
        /\ calls[i].op = "exec" =>
             \E j \in MadeOn("deleteFile", outputName) : j > i

\* C2: in a processVideo call on a video above 10 GiB whose createDir or
\* mount call failed, the video is never written with writeFile, exec is
\* never called, and the call rejects.
C2_NoFallbackAboveCeiling ==
  (/\ kind = "process"
   /\ SizeAbove(videoSize, MassiveGiB)
   /\ Failed("createDir") \cup Failed("mount") # {}) =>
    /\ Made("writeFile") = {}
    /\ Made("exec") = {}
    /\ Settled /\ outcome = "rejected" /\ url = ""

C2_Witness ==
  /\ kind = "process" /\ SizeAbove(videoSize, MassiveGiB)
  /\ Failed("mount") # {} /\ pc = "done" /\ outcome = "rejected"

\* C3: when the mount attempt failed on a video not above 2 GiB and the
\* video was written to 'input.mp4', the call does not settle without exec
\* having been invoked with 'input.mp4' as its '-i' input.
C3_FallbackContinues ==
  (/\ kind = "process" /\ Settled
   /\ NotAboveLarge
   /\ Failed("createDir") \cup Failed("mount") # {}
   /\ \E i \in MadeOn("writeFile", simpleName) : calls[i].ok) =>
    MadeOn("exec", simpleName) # {}

\* C4: a processVideo call invokes exec at most once and mount at most
\* once; once exec has returned a non-zero status the output is never read,
\* no object URL is returned and the call rejects.
C4_ExecOnceNonZeroRejects ==
  kind = "process" =>
    /\ Cardinality(Made("exec")) <= 1
    /\ Cardinality(Made("mount")) <= 1
    /\ (\E i \in Made("exec") : calls[i].ok /\ calls[i].ret # 0) =>
         /\ Made("readFile") = {}
         /\ outcome # "resolved" /\ url = ""
         /\ Settled => outcome = "rejected"

C4_Witness ==
  /\ kind = "process" /\ Settled /\ outcome = "rejected"
  /\ \E i \in Made("exec") : calls[i].ok /\ calls[i].ret # 0

\* C5: a createPreview call in which exec returned a non-zero status
\* rejects and returns no object URL.
C5_PreviewNonZeroRejects ==
  (/\ kind = "preview"
   /\ \E i \in Made("exec") : calls[i].ok /\ calls[i].ret # 0) =>
    /\ outcome # "resolved" /\ url = ""

\* C6: the argument list of a processVideo call (first variant) on a video
\* not above 2 GiB has no scale stage: without a subtitle it has no '-vf'
\* at all, with one the '-vf' value is the subtitle stage alone.
C6_NoScaleBelowThreshold ==
  (Process1 /\ args # <<>> /\ NotAboveLarge) =>
    /\ subFile = NoFile => VfIdx = {}
    /\ subFile # NoFile =>
         /\ Cardinality(VfIdx) = 1
         /\ StartsWith(VfValue, "subtitles=")
         /\ ~Contains(VfValue, "scale=")

C6_Witness ==
  /\ Process1 /\ videoSize = <<LargeGiB, 0>> /\ subFile # NoFile
  /\ Made("exec") # {} /\ Cardinality(VfIdx) = 1

\* C7: the '-vf' value of a processVideo call (first variant) on a video
\* above 2 GiB starts with 'scale=-2:720'; with a subtitle the subtitle
\* stage follows after one comma, and each stage occurs exactly once.
C7_ScaleBeforeSubtitles ==
  (Process1 /\ args # <<>> /\ ~NotAboveLarge) =>
    /\ Cardinality(VfIdx) = 1
    /\ StartsWith(VfValue, "scale=-2:720")
    /\ CountOcc(VfValue, "scale=") = 1
    /\ subFile = NoFile => VfValue = "scale=-2:720"
    /\ subFile # NoFile =>
         /\ StartsWith(VfValue, "scale=-2:720,subtitles=")
         /\ CountOcc(VfValue, "subtitles=") = 1

C7_Witness ==
  /\ Process1 /\ ~NotAboveLarge /\ subFile # NoFile
  /\ Made("exec") # {} /\ Cardinality(VfIdx) = 1

IsHexDigit(c) == c \in HexAlphabet \ {"#"}
\* the 6 hex digits of a colour string RRGGBB or #RRGGBB, "" for any other
SixDigits(h) ==
  LET d == IF Len(h) = 7 /\ CharAt(h, 1) = "#" THEN SubSeq(h, 2, 7) ELSE h
  IN  IF Len(d) = 6 /\ \A i \in 1..6 : IsHexDigit(CharAt(d, i))
      THEN d ELSE ""

\* C8: for a colour string of 6 hex digits RRGGBB, with or without a
\* leading '#', toAssColor returns '&H00' followed by BB, GG, RR.
C8_ComponentsReversed ==
  (assOut # "" /\ SixDigits(hexIn) # "") =>
    LET d == SixDigits(hexIn) IN
    /\ Len(assOut) = 10
    /\ SubSeq(assOut, 1, 4) = "&H00"
    /\ CharAt(assOut, 5) = CharAt(d, 5) /\ CharAt(assOut, 6) = CharAt(d, 6)
    /\ CharAt(assOut, 7) = CharAt(d, 3) /\ CharAt(assOut, 8) = CharAt(d, 4)
    /\ CharAt(assOut, 9) = CharAt(d, 1) /\ CharAt(assOut, 10) = CharAt(d, 2)

C8_Witness == hexIn = "#0fA0ff" /\ assOut = "&H00ffA00f"

\* length of a colour string, its '#' (one, wherever it stands) not counted
LenWithoutHash(h) ==
  Len(h) - (IF \E i \in 1..Len(h) : CharAt(h, i) = "#" THEN 1 ELSE 0)

ColourKey(field) ==
  IF field = "primaryColor" THEN ",PrimaryColour=" ELSE ",OutlineColour="

\* C9: for a colour string whose length, not counting its '#', is other
\* than 6, toAssColor returns '&H00FFFFFF', and generateStyleString writes
\* that fallback into the field (primary or outline) the string was given
\* for.
C9_MalformedFallsBack ==
  (assOut # "" /\ LenWithoutHash(hexIn) # 6) =>
    /\ assOut = "&H00FFFFFF"
    /\ Contains(styleOut, ColourKey(colorField) \o "&H00FFFFFF,")

C9_Witness ==
  /\ hexIn = "#0fA0f" /\ colorField = "outlineColor"
  /\ assOut = "&H00FFFFFF"
  /\ Contains(styleOut, ",OutlineColour=&H00FFFFFF,")

\* the documented mapping of the position choice to the ASS alignment code
DocumentedCode == [top |-> 8, middle |-> 5, bottom |-> 2]

\* C10: right after a position button was clicked, the style's alignment is
\* 8 for top, 5 for middle and 2 for bottom, and generateStyleString writes
\* the alignment of any style, unchanged, as 'Alignment=<code>'.
C10_AlignmentCodes ==
  /\ Contains(generateStyleString(subStyle),
              ",Alignment=" \o ToString(subStyle.alignment) \o ",Bold=")
  /\ lastUi \in Positions =>
       /\ subStyle.alignment = DocumentedCode[lastUi]
       /\ Contains(generateStyleString(subStyle),
                   ",Alignment=" \o ToString(DocumentedCode[lastUi])
                     \o ",Bold=")

C10_Witness ==
  /\ lastUi = "top" /\ subStyle.alignment = 8
  /\ Contains(generateStyleString(subStyle), ",Alignment=8,")


ArgIdx(x) == {i \in 1..Len(args) : args[i] = x}
\* flag is followed by val somewhere in the argument list
ArgPair(flag, val) ==
  \E i \in 1..(Len(args) - 1) : args[i] = flag /\ args[i + 1] = val

\* C11: the argument list of a processVideo call (first variant) is '-i'
\* and the input path, then '-vf' and the filter graph exactly when there is
\* a filter stage (large video or subtitle), then '-r' and the frame rate,
\* then the codec parameters starting with '-c:v libx264', and the output
\* name last; each of these flags occurs once.
C11_FixedArgumentOrder ==
  (Process1 /\ args # <<>>) =>
    LET hasStage == ~NotAboveLarge \/ subFile # NoFile
        k == IF hasStage THEN 5 ELSE 3
    IN  /\ args[1] = "-i" /\ args[2] = "/mnt_input/source_video.mp4"
        /\ VfIdx = (IF hasStage THEN {3} ELSE {})
        /\ args[k] = "-r" /\ args[k + 1] = ToString(fps)
        /\ args[k + 2] = "-c:v" /\ args[k + 3] = "libx264"
        /\ args[Len(args)] = outputName
        /\ ArgIdx("-i") = {1} /\ ArgIdx("-r") = {k}
        /\ ArgIdx("-c:v") = {k + 2} /\ ArgIdx(outputName) = {Len(args)}
        /\ \A i \in ArgIdx("-preset") \cup ArgIdx("-crf") \cup ArgIdx("-c:a") :
             k + 3 < i /\ i < Len(args)

C11_Witness ==
  /\ Process1 /\ Made("exec") # {} /\ VfIdx = {3} /\ args[5] = "-r"

\* C12: in the argument list of a processVideo call (first variant) a
\* video above 2 GiB gets '-preset ultrafast', '-crf 28' and '-tune
\* fastdecode', any other '-preset veryfast' and '-crf 23'; '-threads 2' is
\* there exactly when the video is above 10 GiB; '-preset' and '-crf' occur
\* once each.
C12_CodecTiers ==
  (Process1 /\ args # <<>>) =>
    /\ Cardinality(ArgIdx("-preset")) = 1
    /\ Cardinality(ArgIdx("-crf")) = 1
    /\ IF NotAboveLarge
       THEN ArgPair("-preset", "veryfast") /\ ArgPair("-crf", "23")
       ELSE /\ ArgPair("-preset", "ultrafast") /\ ArgPair("-crf", "28")
            /\ ArgPair("-tune", "fastdecode")
    /\ ArgPair("-threads", "2") <=>
         (videoSize[1] > MassiveGiB
            \/ (videoSize[1] = MassiveGiB /\ videoSize[2] > 0))

C12_Witness ==
  /\ Process1 /\ Made("exec") # {} /\ videoSize = <<MassiveGiB, 1>>
  /\ ArgPair("-threads", "2") /\ ArgPair("-crf", "28")

ExecReturnedZero == \E i \in Made("exec") : calls[i].ok /\ calls[i].ret = 0
ExecFailure == \E i \in Made("exec") : ~calls[i].ok \/ calls[i].ret # 0
OutputRead == \E i \in Made("readFile") : calls[i].ok

\* C13: a processVideo call in which exec returned 0 and the output file
\* was read resolves with an object URL, whatever the cleanup calls made
\* after the read did.
C13_CleanupNeverEscalates ==
  (kind = "process" /\ Settled /\ ExecReturnedZero /\ OutputRead) =>
    outcome = "resolved" /\ url # ""

\* the error the failed exec call stands for
ExecutionError ==
  LET i == CHOOSE j \in Made("exec") : TRUE
  IN  IF calls[i].ok THEN ExitErr(calls[i].ret) ELSE EngineErr("exec")

\* C14: a processVideo call (either variant) whose exec threw or returned a
\* non-zero status attempts the unmount and rejects with the execution
\* error itself, also when the unmount or deleteDir of that path throws.
C14_ExecErrorNotMasked ==
  (kind = "process" /\ Settled /\ ExecFailure) =>
    /\ \E i \in Made("exec") : \E j \in Made("unmount") : j > i
    /\ outcome = "rejected" /\ error = ExecutionError

\* C15: a processVideo call (first variant) whose readFile of the output
\* failed after exec returned 0 rejects with the memory-limit diagnostic,
\* returns no object URL, and has attempted after the read the unmount and
\* the deleteFile of the output and of the subtitle (when one was given).
C15_ReadFailureCleansUp ==
  (Process1 /\ Settled /\ ExecReturnedZero /\ Failed("readFile") # {}) =>
    /\ outcome = "rejected" /\ error = ReadErr /\ url = ""
    /\ \E r \in Made("readFile") :
         /\ \E j \in Made("unmount") : j > r
         /\ \E j \in MadeOn("deleteFile", outputName) : j > r
         /\ subFile # NoFile =>
              \E j \in MadeOn("deleteFile", subName) : j > r

\* C16: over any sequence of load, setLogger, setProgress, createPreview and
\* processVideo calls made one after another, at most one engine instance
\* is constructed, and once loaded is true it stays true and the engine's
\* load is not invoked again.
C16_LoadOnce ==
  /\ [](instances <= 1)
  /\ [][loaded => (loaded' /\ engineLoads' = engineLoads)]_vars

\* two calls were made, the second a processVideo that resolved, and the
\* engine was loaded once
C16_Witness ==
  /\ loaded /\ jobs = 2 /\ engineLoads = 1 /\ instances = 1
  /\ kind = "process" /\ outcome = "resolved" /\ pc = "idle"

\* C17: when two calls that begin with load() overlap, only one engine
\* instance is constructed and the two calls never both invoke the engine's
\* load.
C17_LoadOnceOverlapping ==
  /\ instances <= 1
  /\ ~(pc = "engine_load" /\ other.pc = "engine_load")

\* the callback an event of the given type goes to
CallbackFor(type) ==
  IF type = "progress" THEN progressCallback ELSE logCallback

\* C19: an engine instance has exactly one 'log' and one 'progress'
\* listener, whatever calls were made, and every event is delivered exactly
\* once, to the callback registered when it is emitted, or to nobody when
\* none is registered.
C19_OneListenerOneDelivery ==
  /\ [](/\ logListeners = (IF ffmpeg THEN 1 ELSE 0)
        /\ progressListeners = (IF ffmpeg THEN 1 ELSE 0))
  /\ [][(evSent' # evSent \/ evDelivered' # evDelivered) =>
          /\ Len(evDelivered') =
               (IF CallbackFor(evSent'[1]) = 0 THEN 0 ELSE 1)
          /\ \A i \in 1..Len(evDelivered') :
               evDelivered'[i][1] = CallbackFor(evSent'[1])]_vars

\* the engine's load failed and is retried by the next call, and a log
\* event emitted during the retry reached the callback registered last
C19_Witness ==
  /\ engineLoads = 2 /\ jobs = 2 /\ pc = "engine_load"
  /\ logListeners = 1 /\ logCallback = 2
  /\ evSent = <<"log", "frame=1">>
  /\ evDelivered = << <<2, "frame=1">> >>

\* C20: in the first variant, while the library globals are missing no
\* instance exists, loaded is false and no engine operation was made; the
\* wait for the globals ends: it leaves the poll at a check that sees the
\* globals, and load goes on, or at the 50th poll, and the call rejects
\* with the library error without any engine operation.
C20_MissingLibraryRejects ==
  /\ [](variant = 1 =>
          /\ retries < MaxRetries
          /\ ~globalsAvail =>
               /\ instances = 0 /\ ~ffmpeg /\ ~loaded /\ engineLoads = 0
               /\ calls = <<>>
          /\ error = LibraryErr =>
               outcome = "rejected" /\ pc \in {"done", "idle"} /\ calls = <<>>)
  /\ [][(pc = "poll" /\ pc' # "poll") =>
          IF globalsAvail
          THEN pc' = "create" /\ outcome' = "none"
          ELSE /\ pc' = "done" /\ outcome' = "rejected"
               /\ error' = LibraryErr /\ retries = MaxRetries - 1]_vars
  /\ (pc = "poll") ~> (pc # "poll")

\* processVideo was rejected with the library error, the library still
\* missing
C20_Witness ==
  /\ variant = 1 /\ ~globalsAvail
  /\ kind = "process" /\ outcome = "rejected"
  /\ error = LibraryErr /\ calls = <<>>

\* C18: at most one job started from the UI is in flight: no render starts
\* while a preview is being generated, and no second render or second
\* preview while one is running.
C18_OneJobInFlight == ~(pJob # NoJob /\ rJob # NoJob)

\* C24: once processVideo has assembled its arguments, the path after '-i'
\* is the mount directory, '/', and the name of the File that was mounted:
\* 'source_video.mp4' in the first variant, videoFile.name in the second.
C24_InputPathNamesMountedFile ==
  (kind = "process" /\ args # <<>>) =>
    /\ args[1] = "-i"
    /\ \E i \in Made("mount") :
         /\ calls[i].ok
         /\ args[2] = mountDir \o "/" \o calls[i].arg
         /\ calls[i].arg =
              (IF variant = 1 THEN "source_video.mp4" ELSE videoName)

\* a second-variant call that mounted a file with a space in its name and
\* ran exec
C24_Witness ==
  /\ kind = "process" /\ variant = 2 /\ videoName = "my clip.mkv"
  /\ Made("exec") # {} /\ args[2] = "/mnt_input/my clip.mkv"

\* every pre-cleanup call whose file-system precondition held succeeded
PreCleanupUnhindered ==
  /\ fsDir # "mounted"
  /\ ~(Len(calls) = 2 /\ ~calls[2].ok)

\* C25: in the first variant, whatever the previous job left behind, the
\* mount directory is absent when the pre-cleanup of processVideo is over
\* (no engine call of the pre-cleanup having failed for reasons of its own).
C25_PreCleanupClearsMount ==
  (Process1 /\ pc = "create_dir" /\ PreCleanupUnhindered) =>
    fsDir = "absent"

\* C26: a createPreview call of the first variant that got past load() has,
\* when it settles, attempted deleteFile on the preview input, on the
\* preview subtitle when one was given, and on the preview output when exec
\* was invoked; and it resolves when the output was read.
C26_PreviewCleanupAttempted ==
  (variant = 1 /\ kind = "preview" /\ Settled /\ calls # <<>>) =>
    /\ MadeOn("deleteFile", inputName) # {}
    /\ subFile # NoFile => MadeOn("deleteFile", subName) # {}
    /\ Made("exec") # {} => MadeOn("deleteFile", previewOutput) # {}
    /\ OutputRead => outcome = "resolved"

\* the extension the claim describes: the lower-cased text after the last
\* '.' of the name (the whole name when it has no '.'), 'srt' when empty
DocumentedExt(name) ==
  LET dot == LastIndexOfFrom(name, ".", Len(name))
      text == toLowerCase(SubSeq(name, dot + 1, Len(name)))
  IN  IF text = "" THEN "srt" ELSE text

DocumentedSubName ==
  (IF kind = "process" THEN "subtitles." ELSE "preview_sub.")
    \o DocumentedExt(subFile)

\* names of files that are not the subtitle
OtherNames == {inputName, previewOutput, simpleName, outputName}

\* the calls of the log made on the subtitle file
SubCalls(op) == {i \in Made(op) : calls[i].arg \notin OtherNames}

\* C27: in the first variant, with a subtitle file, every writeFile and
\* deleteFile of the subtitle and the 'subtitles=' filter stage use the one
\* name 'subtitles.<ext>' ('preview_sub.<ext>' in createPreview); without a
\* subtitle file there is no such call and no such stage.
C27_OneSubtitleName ==
  variant = 1 =>
    IF subFile = NoFile
    THEN /\ SubCalls("writeFile") = {} /\ SubCalls("deleteFile") = {}
         /\ \A i \in 1..Len(args) : ~Contains(args[i], "subtitles=")
    ELSE /\ \A i \in SubCalls("writeFile") \cup SubCalls("deleteFile") :
              calls[i].arg = DocumentedSubName
         /\ args # <<>> =>
              /\ VfIdx # {}
              /\ Contains(VfValue,
                          "subtitles=" \o DocumentedSubName \o ":force_style=")

\* the preview input was written
InputStaged == \E i \in MadeOn("writeFile", inputName) : calls[i].ok

\* C27 (amended): as C27, except that a createPreview call that failed
\* before the preview input was written calls deleteFile with the default
\* name 'preview_sub.srt', whatever the subtitle's extension.  Lower-casing
\* reaches the cased letters beyond ASCII: 'Ä' gives 'ä'.
C27_OneSubtitleNameOnceStaged ==
  /\ toLowerCase("Ä") = "ä"
  /\ variant = 1 =>
    IF subFile = NoFile
    THEN /\ SubCalls("writeFile") = {} /\ SubCalls("deleteFile") = {}
         /\ \A i \in 1..Len(args) : ~Contains(args[i], "subtitles=")
    ELSE /\ \A i \in SubCalls("writeFile") : calls[i].arg = DocumentedSubName
         /\ \A i \in SubCalls("deleteFile") :
              calls[i].arg = (IF kind = "preview" /\ ~InputStaged
                              THEN "preview_sub.srt" ELSE DocumentedSubName)
         /\ args # <<>> =>
              /\ VfIdx # {}
              /\ Contains(VfValue,
                          "subtitles=" \o DocumentedSubName \o ":force_style=")

\* a first-variant call wrote 'subtitles.ass' for 'movie.ASS', named it in
\* the filter and deleted it
C27_Witness ==
  /\ Process1 /\ subFile = "movie.ASS" /\ outcome = "resolved"
  /\ \E i \in SubCalls("writeFile") : calls[i].arg = "subtitles.ass"
  /\ \E i \in SubCalls("deleteFile") : calls[i].arg = "subtitles.ass"
  /\ Contains(VfValue, "subtitles=subtitles.ass:force_style=")

\* the values startProcessing passes on: videoFile, subFile, fps, subStyle
AppInputs == <<videoFile, appSub, appFps, subStyle>>

\* C21: while a render is in flight videoFile, subFile, fps and subStyle
\* keep the values startProcessing was invoked with and outputUrl stays
\* null as it was; when the job fails, step becomes SETTINGS, error is the
\* failure's message, isProcessing is false and those values are unchanged.
C21_FailureRestoresSettings ==
  /\ [](rJob # NoJob => (AppInputs = rJob /\ outputUrl = ""))
  /\ [][(rJob # NoJob /\ rJob' = NoJob /\ step' # "COMPLETED") =>
          /\ step' = "SETTINGS"
          /\ appError' \in RenderErrors
          /\ ~isProcessing'
          /\ AppInputs' = rJob
          /\ outputUrl' = ""]_vars

\* a render started with a subtitle, 15 fps and a changed style has failed
C21_Witness ==
  /\ step = "SETTINGS" /\ lastUi = "render" /\ rJob = NoJob
  /\ appError \in RenderErrors /\ ~isProcessing
  /\ appSub = "movie.srt" /\ appFps = 15 /\ subStyle # PRESETS[1].style

\* the object URLs created so far
CreatedUrls == {"blob:" \o ToString(n) : n \in 1..urlSeq}

\* C22: every object URL obtained from createPreview or processVideo is
\* either still held by the App (previewUrl or outputUrl) or has been
\* revoked, never both and never neither.
C22_UrlsRevokedWhenDropped ==
  \A u \in CreatedUrls : (u \in revoked) # (u \in {previewUrl, outputUrl})

\* C23: in the PROCESSING step a render is in flight; the step is left only
\* when the job ends, to COMPLETED exactly when processVideo resolved and to
\* SETTINGS when it rejected, with isProcessing false; and it is left
\* eventually.
C23_RenderRunsToTheEnd ==
  /\ [](step = "PROCESSING" => (rJob # NoJob /\ isProcessing))
  /\ [][(step = "PROCESSING" /\ step' # "PROCESSING") =>
          /\ rJob' = NoJob /\ ~isProcessing'
          /\ IF urlSeq' # urlSeq
             THEN step' = "COMPLETED" /\ outputUrl' # ""
             ELSE step' = "SETTINGS" /\ appError' \in RenderErrors]_vars
  /\ (step = "PROCESSING") ~> (step # "PROCESSING")

\* a render has resolved: the App is on the COMPLETED view
C23_Witness ==
  /\ step = "COMPLETED" /\ lastUi = "render"
  /\ rJob = NoJob /\ ~isProcessing /\ outputUrl # ""

\* C28: a non-null previewUrl comes from a createPreview call made with the
\* videoFile and subFile that are selected now.
C28_PreviewOfCurrentInputs ==
  previewUrl # "" =>
    /\ previewOf # NoJob
    /\ previewOf[1] = videoFile /\ previewOf[2] = appSub

\* C29: in every step but UPLOAD a video is selected.
C29_VideoSelectedPastUpload == step # "UPLOAD" => videoFile # NoFile

\* resetApp has returned the App to UPLOAD without a video
C29_Witness ==
  step = "UPLOAD" /\ videoFile = NoFile /\ lastUi = "reset" /\ urlSeq > 0

\* C30: in COMPLETED outputUrl is non-null; COMPLETED is entered only from
\* PROCESSING, by the render resolving, with the URL it returned, which
\* stays while the step is COMPLETED; COMPLETED is left only for UPLOAD,
\* with outputUrl, videoFile, subFile, previewUrl, progress and error
\* cleared.
C30_CompletedHoldsOutput ==
  /\ [](step = "COMPLETED" => outputUrl # "")
  /\ [][(step # "COMPLETED" /\ step' = "COMPLETED") =>
          /\ step = "PROCESSING" /\ rJob # NoJob /\ rJob' = NoJob
          /\ urlSeq' = urlSeq + 1
          /\ outputUrl' = "blob:" \o ToString(urlSeq')]_vars
  /\ [][(step = "COMPLETED" /\ step' = "COMPLETED") =>
          outputUrl' = outputUrl]_vars
  /\ [][(step = "COMPLETED" /\ step' # "COMPLETED") =>
          /\ step' = "UPLOAD"
          /\ outputUrl' = "" /\ videoFile' = NoFile /\ appSub' = NoFile
          /\ previewUrl' = "" /\ appProgress' = 0 /\ appError' = ""]_vars

\* the second render of the session has resolved
C30_Witness ==
  step = "COMPLETED" /\ outputUrl = "blob:2" /\ urlSeq = 2 /\ previewUrl = ""

====
